---- MODULE Spec2Model ----
(***************************************************************************)
(* Model of the fitness site's data loader (src/fitness/js/fetch.js):      *)
(* getClasses() = retry(fetchWithTimeout -> ok check -> content-type check *)
(* -> response.json() -> validateClasses), with the catch block of         *)
(* getClasses that logs a diagnostic and returns [].                       *)
(*                                                                         *)
(* Strings whose content the code inspects are modelled as sequences:      *)
(* field values as sequences of characters (for trim()), messages and      *)
(* header values as sequences of tokens (for includes()).                  *)
(***************************************************************************)
EXTENDS Integers, Sequences, FiniteSets, TLC

VARIABLES
    pc,          \* position of the getClasses call: idle, fetching, parsing, backoff, done
    retries,     \* parameter `retries` of the current retry() frame
    delay,       \* parameter `delay` of the current retry() frame
    attempts,    \* number of times fn() (one fetch attempt) has been started
    waited,      \* the backoff delays that have elapsed, in order
    history,     \* the kind of failure that ended each failed attempt, in order
    timers,      \* the timeout timer of each attempt, in order: armed, cleared, fired
    data,        \* the value response.json() produced in the current attempt
    warnings,    \* the count console.warn reported in validateClasses (0: no warning)
    settled,     \* the promise returned by getClasses: pending, fulfilled, rejected
    result,      \* the array the promise resolved to
    diagnostic,  \* the category of the user-friendly message logged by the catch block
    calls,       \* two concurrent getClasses calls: the state of each
    store,       \* localStorage: the item stored under each of STORAGE_KEYS
    available,   \* localStorage.setItem works (it is enabled and not full)
    last,        \* the last storage operation: its arguments, what it returned,
                 \* and the items before it
    page         \* the programs page: the state of main.js and modal.js and the
                 \* parts of the document their handlers read and write

loaderVars == <<pc, retries, delay, attempts, waited, history, timers, data, warnings,
                settled, result, diagnostic>>

pairVars == <<calls>>

storageVars == <<store, available, last>>

pageVars == <<page>>

\* what the steps of the single call leave alone
notLoader == <<pairVars, storageVars, pageVars>>

\* what the steps of the concurrent calls leave alone
notPair == <<loaderVars, storageVars, pageVars>>

\* what the storage operations leave alone
notStorage == <<loaderVars, pairVars, pageVars>>

\* what the handlers of the page leave alone (savePreference writes `store`)
notPage == <<loaderVars, pairVars, available, last>>

vars == <<loaderVars, pairVars, storageVars, pageVars>>

----------------------------------------------------------------------------
(* Bounds of the model *)

\* longest array a response body holds
MaxLen == 3

\* longest recentClasses array handed to importData
MaxRecent == 2

\* most initial-focus timers of the modal pending at once
MaxTimers == 2

----------------------------------------------------------------------------
(* CONFIG *)

maxRetries == 3
retryDelay == 1000
timeout == 5000

----------------------------------------------------------------------------
(* JSON values.  A value is [t, v, f]: t its JSON type, v its characters   *)
(* (strings, numbers), f its properties for the required field names, a    *)
(* property the object does not own being Absent.                          *)

requiredFields == <<"name", "type", "duration", "level", "trainer">>

FieldNames == {requiredFields[i] : i \in 1..Len(requiredFields)}

Absent == [t |-> "absent", v |-> <<>>]

Str(s) == [t |-> "string", v |-> s]

Num(s) == [t |-> "number", v |-> s]

NoProps == [k \in FieldNames |-> Absent]

Obj(props) == [t |-> "object", v |-> <<>>, f |-> props]

Null == [t |-> "null", v |-> <<>>, f |-> NoProps]

Yoga ==
    Obj([k \in FieldNames |->
            CASE k = "name"     -> Str(<<"Y", "o", "g", "a">>)
              [] k = "type"     -> Str(<<"y", "o", "g", "a">>)
              [] k = "duration" -> Str(<<"6", "0">>)
              [] k = "level"    -> Str(<<" ", "A", "l", "l">>)
              [] k = "trainer"  -> Str(<<"A", "n", "a">>)])

Hiit ==
    Obj([k \in FieldNames |->
            CASE k = "name"     -> Str(<<"H", "I", "I", "T">>)
              [] k = "type"     -> Str(<<"h", "i", "i", "t">>)
              [] k = "duration" -> Str(<<"3", "0">>)
              [] k = "level"    -> Str(<<"P", "r", "o", " ">>)
              [] k = "trainer"  -> Str(<<"L", "e", "o">>)])

\* a record that does not own `trainer`
NoTrainer == Obj([Yoga.f EXCEPT !["trainer"] = Absent])

\* a record whose `level` is whitespace only
BlankLevel == Obj([Hiit.f EXCEPT !["level"] = Str(<<" ", " ">>)])

\* a record whose `duration` is a number
NumDuration == Obj([Yoga.f EXCEPT !["duration"] = Num(<<"6", "0">>)])

\* the elements a response array is built from
Elems == {Yoga, Hiit, NoTrainer, BlankLevel, NumDuration, Null}

Arrays == UNION {[1..n -> Elems] : n \in 0..MaxLen}

Undefined == [t |-> "undefined", items |-> <<>>]

ArrayOf(items) == [t |-> "array", items |-> items]

\* the values a body can parse to: arrays, an object, a scalar
Bodies ==
    {ArrayOf(a) : a \in Arrays}
        \cup {[t |-> "object", items |-> <<>>], [t |-> "number", items |-> <<>>]}

----------------------------------------------------------------------------
(* JavaScript primitives the code uses *)

Whitespace == {" ", "\t", "\n"}

RECURSIVE trimStart(_)
trimStart(s) ==
    IF s # <<>> /\ Head(s) \in Whitespace THEN trimStart(Tail(s)) ELSE s

RECURSIVE trimEnd(_)
trimEnd(s) ==
    IF s # <<>> /\ s[Len(s)] \in Whitespace
    THEN trimEnd(SubSeq(s, 1, Len(s) - 1))
    ELSE s

trim(s) == trimEnd(trimStart(s))

typeof(x) == IF x.t \in {"object", "null", "array"} THEN "object" ELSE x.t

Falsy(x) ==
    \/ x.t \in {"null", "undefined", "absent"}
    \/ x.t = "string" /\ x.v = <<>>
    \/ x.t = "number" /\ x.v = <<"0">>

hasOwnProperty(obj, field) == obj.f[field].t # "absent"

isArray(x) == x.t = "array"

\* String.prototype.includes on token sequences
includes(s, needle) ==
    \E i \in 1..(Len(s) - Len(needle) + 1) :
        SubSeq(s, i, i + Len(needle) - 1) = needle

----------------------------------------------------------------------------
(* Errors: [name, message], the message a sequence of tokens *)

Err(name, message) == [name |-> name, message |-> message]

\* fetch() rejects with this once controller.abort() has run
AbortError == Err("AbortError", <<"The", "user", "aborted", "a", "request", ".">>)

\* fetch() or the body read rejects with this on a network failure
NetworkError == Err("TypeError", <<"Failed", "to", "fetch">>)

HttpError(status) ==
    Err("Error", <<"HTTP", "error", "!", "status", ":", ToString(status)>>)

ContentTypeError ==
    Err("Error", <<"Invalid", "content", "type", ":", "expected", "JSON">>)

\* response.json() rejects with a SyntaxError whose text is the engine's own
SyntaxErrors ==
    {Err("SyntaxError", <<"Unexpected", "token", "<", "in", "JSON", "at", "position", "0">>),
     Err("SyntaxError", <<"The", "string", "did", "not", "match", "the", "expected",
                           "pattern", ".">>)}

NotArrayError ==
    Err("Error", <<"Invalid", "data", "format", ":", "expected", "an", "array">>)

NoValidError ==
    Err("Error", <<"No", "valid", "classes", "found", "in", "data">>)

----------------------------------------------------------------------------
(* Responses: [status, contentType]; the content-type header is null or a  *)
(* sequence of tokens.                                                     *)

NoHeader == [t |-> "null", v |-> <<>>]

Header(tokens) == [t |-> "string", v |-> tokens]

ContentTypes ==
    {NoHeader,
     Header(<<"application/json">>),
     Header(<<"application/json", ";", "charset=utf-8">>),
     Header(<<"text/html">>)}

Statuses == {200, 204, 404, 503}

Responses == [status : Statuses, contentType : ContentTypes]

\* Response.ok: the status is in the range 200-299
ok(response) == response.status >= 200 /\ response.status <= 299

----------------------------------------------------------------------------
(* Data validation *)

\* as isValidClass, the value compared with '' without trim()
isValidClassNoTrim(classData) ==
    IF Falsy(classData) \/ typeof(classData) # "object"
    THEN FALSE
    ELSE \A i \in 1..Len(requiredFields) :
            LET field == requiredFields[i] IN
                /\ hasOwnProperty(classData, field)
                /\ typeof(classData.f[field]) = "string"
                /\ classData.f[field].v # <<>>

\* as isValidClass, requiredFields.some in place of requiredFields.every
isValidClassSome(classData) ==
    IF Falsy(classData) \/ typeof(classData) # "object"
    THEN FALSE
    ELSE \E i \in 1..Len(requiredFields) :
            LET field == requiredFields[i] IN
                /\ hasOwnProperty(classData, field)
                /\ typeof(classData.f[field]) = "string"
                /\ trim(classData.f[field].v) # <<>>

isValidClass(classData) ==
    IF Falsy(classData) \/ typeof(classData) # "object"
    THEN FALSE
    ELSE \A i \in 1..Len(requiredFields) :
            LET field == requiredFields[i] IN
                /\ hasOwnProperty(classData, field)
                /\ typeof(classData.f[field]) = "string"
                /\ trim(classData.f[field].v) # <<>>

Returned(value, warned) ==
    [threw |-> FALSE, error |-> Err("", <<>>), value |-> value, warned |-> warned]

Thrown(error) ==
    [threw |-> TRUE, error |-> error, value |-> <<>>, warned |-> 0]

\* as validateClasses, returning `classes` instead of `validClasses`
validateClassesUnfiltered(classes) ==
    IF ~isArray(classes)
    THEN Thrown(NotArrayError)
    ELSE LET validClasses == SelectSeq(classes.items, isValidClass) IN
         IF Len(validClasses) = 0
         THEN Thrown(NoValidError)
         ELSE Returned(classes.items, 0)

\* as validateClasses, the filter starting at the second element
validateClassesSkipFirst(classes) ==
    IF ~isArray(classes)
    THEN Thrown(NotArrayError)
    ELSE LET validClasses == SelectSeq(SubSeq(classes.items, 2, Len(classes.items)), isValidClass) IN
         IF Len(validClasses) = 0
         THEN Thrown(NoValidError)
         ELSE Returned(validClasses, 0)

validateClasses(classes) ==
    IF ~isArray(classes)
    THEN Thrown(NotArrayError)
    ELSE LET validClasses == SelectSeq(classes.items, isValidClass) IN
         IF Len(validClasses) = 0
         THEN Thrown(NoValidError)
         ELSE Returned(validClasses,
                       IF Len(validClasses) < Len(classes.items)
                       THEN Len(classes.items) - Len(validClasses)
                       ELSE 0)

----------------------------------------------------------------------------
(* retry() and the catch block of getClasses *)

\* as ShouldRethrow, giving up one retry early
ShouldRethrowEarly(error, r) == r <= 1

\* as ShouldRethrow, allowing one retry more
ShouldRethrowLate(error, r) == r < 0

\* as ShouldRethrow, rethrowing the errors that mention JSON at once
ShouldRethrowFormat(error, r) == r <= 0 \/ includes(error.message, <<"JSON">>)

\* retry's catch: rethrow (retries <= 0) instead of waiting
ShouldRethrow(error, r) == r <= 0

NextRetries(r) == r - 1

\* as NextDelay, a linear backoff
NextDelayLinear(d) == d + retryDelay

NextDelay(d) == d * 2

\* the user-friendly message the catch block of getClasses logs
Diagnostic(error) ==
    IF error.name = "AbortError" THEN "Request timeout"
    ELSE IF includes(error.message, <<"HTTP", "error">>) THEN "Server error"
    ELSE IF includes(error.message, <<"JSON">>) THEN "Data format error"
    ELSE "Network error"

\* as Catch, rethrowing what is not a timeout
CatchRethrows(error) ==
    IF error.name = "AbortError"
    THEN [settled |-> "fulfilled", value |-> <<>>, diagnostic |-> Diagnostic(error)]
    ELSE [settled |-> "rejected", value |-> <<>>, diagnostic |-> Diagnostic(error)]

\* the catch block of getClasses: log, then return []
Catch(error) ==
    [settled |-> "fulfilled", value |-> <<>>, diagnostic |-> Diagnostic(error)]

----------------------------------------------------------------------------
(* The state machine *)

\* the timeout timer of the current attempt
timer == IF attempts = 0 THEN "unset" ELSE timers[attempts]

\* as clearTimeout, the call left out
clearTimeoutMissing(t) == t

\* clearTimeout(timeoutId): a pending timer is cancelled
clearTimeout(t) == IF t = "armed" THEN "cleared" ELSE t

----------------------------------------------------------------------------
(* Local storage (src/fitness/js/storage.js).  JavaScript values are        *)
(* [t, v, items, props]: scalars carry their text in v, arrays their        *)
(* elements (scalars) in items, objects the value of each preference key in *)
(* props (Absent: the object has no such key).  A stored item is the JSON   *)
(* text JSON.stringify produced, a sequence of tokens.                      *)

STORAGE_KEYS == <<"fitness_preferred_training", "fitness_user_preferences",
                  "fitness_recent_classes">>

preferredTrainingKey == STORAGE_KEYS[1]

userPreferencesKey == STORAGE_KEYS[2]

recentClassesKey == STORAGE_KEYS[3]

MAX_RECENT_ITEMS == 10

\* the keys of a user preferences object, in insertion order
PrefKeys == <<"theme", "notifications", "language">>

PrefKeySet == {PrefKeys[i] : i \in 1..Len(PrefKeys)}

Bool(b) == [t |-> "boolean", v |-> <<b>>]

NullScalar == [t |-> "null", v |-> <<>>]

UndefinedScalar == [t |-> "undefined", v |-> <<>>]

NoPrefs == [k \in PrefKeySet |-> Absent]

Value(scalar) == [t |-> scalar.t, v |-> scalar.v, items |-> <<>>, props |-> NoPrefs]

ArrayValue(items) == [t |-> "array", v |-> <<>>, items |-> items, props |-> NoPrefs]

ObjectValue(props) == [t |-> "object", v |-> <<>>, items |-> <<>>, props |-> props]

NullValue == Value(NullScalar)

\* the scalar at the head of a value
ScalarOf(x) == [t |-> x.t, v |-> x.v]

\* JSON text
Tok(k, s) == [k |-> k, s |-> s]

Punct(s) == Tok("punct", s)

\* Array.prototype.join on token sequences
RECURSIVE Join(_, _)
Join(ss, sep) ==
    IF ss = <<>> THEN <<>>
    ELSE IF Len(ss) = 1 THEN ss[1]
    ELSE ss[1] \o sep \o Join(Tail(ss), sep)

\* the text of a scalar; the text of undefined, a function... is no JSON
stringifyScalar(x) ==
    CASE x.t = "string"    -> <<Tok("str", x.v)>>
      [] x.t = "null"      -> <<Tok("lit", <<"null">>)>>
      [] x.t = "undefined" -> <<Tok("lit", <<"undefined">>)>>
      [] OTHER             -> <<Tok("lit", x.v)>>

\* JSON.stringify: an undefined array element becomes null, an undefined
\* property is left out
stringify(x) ==
    IF x.t = "array"
    THEN <<Punct(<<"[">>)>>
            \o Join([i \in 1..Len(x.items) |->
                        IF x.items[i].t = "undefined"
                        THEN stringifyScalar(NullScalar)
                        ELSE stringifyScalar(x.items[i])],
                    <<Punct(<<",">>)>>)
            \o <<Punct(<<"]">>)>>
    ELSE IF x.t = "object"
    THEN LET own == SelectSeq(PrefKeys,
                              LAMBDA k : x.props[k].t \notin {"absent", "undefined"}) IN
         <<Punct(<<"{">>)>>
            \o Join([i \in 1..Len(own) |->
                        <<Tok("str", <<own[i]>>), Punct(<<":">>)>>
                            \o stringifyScalar(x.props[own[i]])],
                    <<Punct(<<",">>)>>)
            \o <<Punct(<<"}">>)>>
    ELSE stringifyScalar(x)

Parsed(value) == [ok |-> TRUE, value |-> value]

\* JSON.parse threw a SyntaxError
Unparsable == [ok |-> FALSE, value |-> NullValue]

IsScalarText(tok) ==
    \/ tok.k = "str"
    \/ tok.k = "lit" /\ tok.s # <<"undefined">>

parseScalar(tok) ==
    IF tok.k = "str" THEN Str(tok.s)
    ELSE IF tok.s = <<"null">> THEN NullScalar
    ELSE IF tok.s \in {<<"true">>, <<"false">>} THEN Bool(tok.s[1])
    ELSE Num(tok.s)

\* JSON.parse of the texts the model holds: a scalar, an array of scalars,
\* an object of scalar properties
parse(text) ==
    LET n == Len(text) IN
    IF n = 0 THEN Unparsable
    ELSE IF n = 1
    THEN IF IsScalarText(text[1]) THEN Parsed(Value(parseScalar(text[1]))) ELSE Unparsable
    ELSE IF text[1] = Punct(<<"[">>) /\ text[n] = Punct(<<"]">>)
    THEN IF n = 2 THEN Parsed(ArrayValue(<<>>))
         ELSE IF /\ n % 2 = 1
                 /\ \A i \in 2..(n - 1) :
                        IF i % 2 = 0 THEN IsScalarText(text[i])
                        ELSE text[i] = Punct(<<",">>)
         THEN Parsed(ArrayValue([i \in 1..((n - 1) \div 2) |-> parseScalar(text[2 * i])]))
         ELSE Unparsable
    ELSE IF text[1] = Punct(<<"{">>) /\ text[n] = Punct(<<"}">>)
    THEN IF n = 2 THEN Parsed(ObjectValue(NoPrefs))
         ELSE IF /\ n % 4 = 1
                 /\ \A i \in 2..(n - 1) :
                        CASE i % 4 = 2 -> text[i].k = "str" /\ Len(text[i].s) = 1
                                            /\ text[i].s[1] \in PrefKeySet
                          [] i % 4 = 3 -> text[i] = Punct(<<":">>)
                          [] i % 4 = 0 -> IsScalarText(text[i])
                          [] OTHER     -> text[i] = Punct(<<",">>)
         THEN Parsed(ObjectValue(
                [k \in PrefKeySet |->
                    IF \E j \in 1..((n - 1) \div 4) : text[4 * j - 2].s = <<k>>
                    THEN parseScalar(
                            text[4 * (CHOOSE j \in 1..((n - 1) \div 4) :
                                        /\ text[4 * j - 2].s = <<k>>
                                        /\ \A l \in (j + 1)..((n - 1) \div 4) :
                                                text[4 * l - 2].s # <<k>>)])
                    ELSE Absent]))
         ELSE Unparsable
    ELSE Unparsable

----------------------------------------------------------------------------
(* localStorage and the core storage functions.  Every function takes the  *)
(* stored items `st` and whether localStorage.setItem works (`av`), and     *)
(* returns what it returns together with the items it leaves.               *)

Missing == [present |-> FALSE, text |-> <<>>]

Item(text) == [present |-> TRUE, text |-> text]

EmptyStore == [k \in {preferredTrainingKey, userPreferencesKey, recentClassesKey} |-> Missing]

isLocalStorageAvailable(av) == av

Done(st, ret) == [store |-> st, ret |-> ret, threw |-> FALSE]

\* a TypeError left the function
Threw(st) == [store |-> st, ret |-> FALSE, threw |-> TRUE]

setItem(st, av, key, value) ==
    IF ~isLocalStorageAvailable(av)
    THEN Done(st, FALSE)
    ELSE Done([st EXCEPT ![key] = Item(stringify(value))], TRUE)

getItem(st, av, key, defaultValue) ==
    IF ~isLocalStorageAvailable(av)
    THEN defaultValue
    ELSE IF ~st[key].present
    THEN defaultValue
    ELSE LET p == parse(st[key].text) IN
         IF p.ok THEN p.value ELSE defaultValue

removeItem(st, av, key) ==
    IF ~isLocalStorageAvailable(av)
    THEN Done(st, FALSE)
    ELSE Done([st EXCEPT ![key] = Missing], TRUE)

clearAll(st, av) ==
    IF ~isLocalStorageAvailable(av)
    THEN Done(st, FALSE)
    ELSE Done([k \in DOMAIN st |-> Missing], TRUE)

(* Recent classes *)

\* Array.prototype.slice(0, limit)
slice(items, limit) ==
    SubSeq(items, 1, IF Len(items) < limit THEN Len(items) ELSE limit)

\* as unshift, the element added at the end
push(items, x) == Append(items, x)

\* Array.prototype.unshift
unshift(items, x) == <<x>> \o items

addRecentClass(st, av, className) ==
    IF Falsy(className) \/ typeof(className) # "string"
    THEN Done(st, FALSE)
    ELSE LET recent == getItem(st, av, recentClassesKey, ArrayValue(<<>>)) IN
         IF ~isArray(recent)
         THEN Threw(st)
         ELSE LET filtered == SelectSeq(recent.items,
                                        LAMBDA item : item # ScalarOf(className))
                  added == unshift(filtered, ScalarOf(className))
                  limited == IF Len(added) > MAX_RECENT_ITEMS
                             THEN slice(added, MAX_RECENT_ITEMS)
                             ELSE added
                  w == setItem(st, av, recentClassesKey, ArrayValue(limited))
              IN  Done(w.store, FALSE)

\* the value returned, or TypeErrorValue when recent.slice is no function
TypeErrorValue == [t |-> "TypeError", v |-> <<>>, items |-> <<>>, props |-> NoPrefs]

getRecentClasses(st, av) ==
    LET recent == getItem(st, av, recentClassesKey, ArrayValue(<<>>)) IN
    IF isArray(recent)
    THEN ArrayValue(slice(recent.items, MAX_RECENT_ITEMS))
    ELSE IF recent.t = "string" THEN recent
    ELSE TypeErrorValue

clearRecentClasses(st, av) == removeItem(st, av, recentClassesKey)

(* Preferred training *)

\* as savePreference, the recent classes left alone
savePreferenceOnly(st, av, type) ==
    IF Falsy(type) \/ typeof(type) # "string"
    THEN Done(st, FALSE)
    ELSE setItem(st, av, preferredTrainingKey, type)

savePreference(st, av, type) ==
    IF Falsy(type) \/ typeof(type) # "string"
    THEN Done(st, FALSE)
    ELSE LET success == setItem(st, av, preferredTrainingKey, type) IN
         IF success.ret
         THEN LET a == addRecentClass(success.store, av, type) IN
              IF a.threw THEN Threw(a.store) ELSE Done(a.store, TRUE)
         ELSE success

getPreference(st, av) == getItem(st, av, preferredTrainingKey, NullValue)

removePreference(st, av) == removeItem(st, av, preferredTrainingKey)

(* User preferences *)

DefaultPreferences ==
    ObjectValue([k \in PrefKeySet |->
                    CASE k = "theme"         -> Str(<<"light">>)
                      [] k = "notifications" -> Bool("true")
                      [] k = "language"      -> Str(<<"es">>)])

saveUserPreferences(st, av, preferences) ==
    IF Falsy(preferences) \/ typeof(preferences) # "object"
    THEN Done(st, FALSE)
    ELSE setItem(st, av, userPreferencesKey, preferences)

\* as getUserPreferences, without the default object
getUserPreferencesNoDefault(st, av) == getItem(st, av, userPreferencesKey, NullValue)

getUserPreferences(st, av) == getItem(st, av, userPreferencesKey, DefaultPreferences)

updateUserPreference(st, av, key, value) ==
    LET preferences == getUserPreferences(st, av) IN
    IF preferences.t # "object"
    THEN saveUserPreferences(st, av, preferences)
    ELSE saveUserPreferences(st, av,
            ObjectValue([preferences.props EXCEPT ![key] = value]))

(* Export and import.  The data object is [t, preferredTraining,           *)
(* userPreferences, recentClasses]; exportDate is not read by importData.   *)

Data(pt, up, rc) ==
    [t |-> "object", v |-> <<>>, preferredTraining |-> pt, userPreferences |-> up,
     recentClasses |-> rc]

\* a data argument that is no object
NoData == [t |-> "null", v |-> <<>>, preferredTraining |-> Value(UndefinedScalar),
           userPreferences |-> Value(UndefinedScalar),
           recentClasses |-> Value(UndefinedScalar)]

exportData(st, av) ==
    Data(getPreference(st, av), getUserPreferences(st, av), getRecentClasses(st, av))

\* as importData, without the write of recentClasses
importDataNoRecent(st, av, d) ==
    IF Falsy(d) \/ typeof(d) # "object"
    THEN Done(st, FALSE)
    ELSE LET s1 == IF ~Falsy(d.preferredTraining)
                   THEN savePreference(st, av, d.preferredTraining)
                   ELSE Done(st, TRUE)
             s2 == IF ~Falsy(d.userPreferences)
                   THEN saveUserPreferences(s1.store, av, d.userPreferences)
                   ELSE Done(s1.store, TRUE)
         IN  IF s1.threw THEN Done(s1.store, FALSE) ELSE Done(s2.store, TRUE)

importData(st, av, d) ==
    IF Falsy(d) \/ typeof(d) # "object"
    THEN Done(st, FALSE)
    ELSE LET s1 == IF ~Falsy(d.preferredTraining)
                   THEN savePreference(st, av, d.preferredTraining)
                   ELSE Done(st, TRUE)
             s2 == IF ~Falsy(d.userPreferences)
                   THEN saveUserPreferences(s1.store, av, d.userPreferences)
                   ELSE Done(s1.store, TRUE)
             s3 == IF ~Falsy(d.recentClasses) /\ isArray(d.recentClasses)
                   THEN setItem(s2.store, av, recentClassesKey, d.recentClasses)
                   ELSE Done(s2.store, TRUE)
         IN  IF s1.threw THEN Done(s1.store, FALSE) ELSE Done(s3.store, TRUE)

\* resetAllData: `confirmed` is the answer to confirm()
resetAllData(st, av, confirmed) ==
    IF confirmed THEN clearAll(st, av) ELSE Done(st, FALSE)

----------------------------------------------------------------------------
(* The storage operations as steps *)

Yoga_ == Value(Str(<<"yoga">>))

Hiit_ == Value(Str(<<"hiit">>))

\* arguments of savePreference and addRecentClass: two types, '' and 5
TypeArgs == {Yoga_, Hiit_, Value(Str(<<>>)), Value(Num(<<"5">>))}

DarkPreferences ==
    ObjectValue([DefaultPreferences.props EXCEPT !["theme"] = Str(<<"dark">>)])

\* arguments of saveUserPreferences: an object, null, a string
PreferenceArgs == {DarkPreferences, NullValue, Value(Str(<<"dark">>))}

RecentArrays ==
    UNION {[1..n -> {ScalarOf(Yoga_), ScalarOf(Hiit_)}] : n \in 0..MaxRecent}

\* arguments of importData: no object, or an object whose fields are absent
\* or hold a value
ImportArgs ==
    {NoData} \cup
    {Data(pt, up, rc) :
        pt \in {Value(UndefinedScalar), NullValue, Hiit_, Value(Num(<<"5">>))},
        up \in {Value(UndefinedScalar), DarkPreferences},
        rc \in {Value(UndefinedScalar)} \cup {ArrayValue(a) : a \in RecentArrays}}

\* a text JSON.parse rejects
CorruptText == <<Punct(<<"{">>), Tok("str", <<"theme">>)>>

NoOp ==
    [op |-> "none", type |-> NullValue, data |-> NoData, ret |-> FALSE,
     threw |-> FALSE, before |-> EmptyStore]

StorageInit ==
    /\ store = EmptyStore
    /\ available = TRUE
    /\ last = NoOp

\* no operation is running: the caller took the result of the last one
Idle == last.op = "none"

\* the operation `op` ran with result r
Ran(op, type, d, r) ==
    /\ store' = r.store
    /\ last' = [op |-> op, type |-> type, data |-> d, ret |-> r.ret,
                threw |-> r.threw, before |-> store]

SavePreference ==
    /\ Idle
    /\ \E type \in TypeArgs :
        Ran("savePreference", type, NoData, savePreference(store, available, type))
    /\ UNCHANGED <<available, notStorage>>

RemovePreference ==
    /\ Idle
    /\ Ran("removePreference", NullValue, NoData, removePreference(store, available))
    /\ UNCHANGED <<available, notStorage>>

SaveUserPreferences ==
    /\ Idle
    /\ \E p \in PreferenceArgs :
        Ran("saveUserPreferences", p, NoData, saveUserPreferences(store, available, p))
    /\ UNCHANGED <<available, notStorage>>

UpdateUserPreference ==
    /\ Idle
    /\ \E value \in {Str(<<"dark">>), UndefinedScalar} :
        Ran("updateUserPreference", Value(value), NoData,
            updateUserPreference(store, available, "theme", value))
    /\ UNCHANGED <<available, notStorage>>

AddRecentClass ==
    /\ Idle
    /\ \E className \in TypeArgs :
        Ran("addRecentClass", className, NoData,
            addRecentClass(store, available, className))
    /\ UNCHANGED <<available, notStorage>>

ClearRecentClasses ==
    /\ Idle
    /\ Ran("clearRecentClasses", NullValue, NoData, clearRecentClasses(store, available))
    /\ UNCHANGED <<available, notStorage>>

ImportData ==
    /\ Idle
    /\ \E d \in ImportArgs :
        Ran("importData", NullValue, d, importData(store, available, d))
    /\ UNCHANGED <<available, notStorage>>

\* importData(exportData())
ImportExported ==
    /\ Idle
    /\ LET d == exportData(store, available) IN
       Ran("importExported", NullValue, d, importData(store, available, d))
    /\ UNCHANGED <<available, notStorage>>

ResetAllData ==
    /\ Idle
    /\ \E confirmed \in BOOLEAN :
        Ran("resetAllData", NullValue, NoData, resetAllData(store, available, confirmed))
    /\ UNCHANGED <<available, notStorage>>

\* the caller takes the result of the operation
OperationReturns ==
    /\ ~Idle
    /\ last' = NoOp
    /\ UNCHANGED <<store, available, notStorage>>

\* another script of the page leaves a text that is no JSON under a key
Corrupt ==
    /\ Idle
    /\ \E key \in DOMAIN store : store' = [store EXCEPT ![key] = Item(CorruptText)]
    /\ UNCHANGED <<last, available, notStorage>>

\* localStorage stops or starts accepting writes (disabled, quota reached)
AvailabilityChanges ==
    /\ Idle
    /\ available' = ~available
    /\ UNCHANGED <<last, store, notStorage>>

StorageNext ==
    \/ SavePreference
    \/ RemovePreference
    \/ SaveUserPreferences
    \/ UpdateUserPreference
    \/ AddRecentClass
    \/ ClearRecentClasses
    \/ ImportData
    \/ ImportExported
    \/ ResetAllData
    \/ OperationReturns
    \/ Corrupt
    \/ AvailabilityChanges

----------------------------------------------------------------------------
(* Two concurrent getClasses calls.  Each call has its own retry() frames   *)
(* (retries, delay), its own AbortController and timer per attempt, and its *)
(* own fetch; `inputs` records what the environment answered to the call's  *)
(* own requests, one entry per finished attempt.                            *)

Calls == {"a", "b"}

\* the bodies and responses the concurrent calls receive
PairBodies == {ArrayOf(<<Hiit, NoTrainer>>), ArrayOf(<<Null>>)}

PairResponses ==
    {[status |-> 200, contentType |-> Header(<<"application/json">>)],
     [status |-> 503, contentType |-> Header(<<"text/html">>)]}

Input(kind, body) == [kind |-> kind, body |-> body]

CallInit ==
    [pc |-> "idle", retries |-> maxRetries, delay |-> retryDelay, attempts |-> 0,
     waited |-> <<>>, inputs |-> <<>>, settled |-> "pending", result |-> <<>>]

PairInit == calls = [c \in Calls |-> CallInit]

\* as ControllerOf, one controller at module level
ControllerShared(c) == "a"

\* the AbortController of the attempt in flight of call c: fetchWithTimeout
\* creates one per invocation
ControllerOf(c) == c

\* fn() starts: fetchWithTimeout
CallStart(s) == [s EXCEPT !.pc = "fetching", !.attempts = @ + 1]

\* fn() threw: retry's catch, then the catch block of getClasses
CallFail(s, error, ins) ==
    LET t == [s EXCEPT !.inputs = @ \o ins] IN
    IF ShouldRethrow(error, s.retries)
    THEN [t EXCEPT !.pc = "done",
                   !.settled = Catch(error).settled,
                   !.result = Catch(error).value]
    ELSE [t EXCEPT !.pc = "backoff"]

\* the response arrived: status and content type are checked
CallResponse(s, response) ==
    IF ~ok(response)
    THEN CallFail(s, HttpError(response.status), <<Input("Http", Undefined)>>)
    ELSE IF Falsy(response.contentType)
            \/ ~includes(response.contentType.v, <<"application/json">>)
    THEN CallFail(s, ContentTypeError, <<Input("Format", Undefined)>>)
    ELSE [s EXCEPT !.pc = "parsing"]

\* the body was parsed: it is validated
CallBody(s, body) ==
    LET v == validateClasses(body) IN
    IF v.threw
    THEN CallFail(s, v.error, <<Input("Body", body)>>)
    ELSE [s EXCEPT !.pc = "done",
                   !.settled = "fulfilled",
                   !.result = v.value,
                   !.inputs = Append(@, Input("Body", body))]

\* the backoff timer fired: retry(fn, retries - 1, delay * 2)
CallRetry(s) ==
    CallStart([s EXCEPT !.waited = Append(@, s.delay),
                        !.retries = NextRetries(@),
                        !.delay = NextDelay(@)])

PairGetClasses(c) ==
    /\ calls[c].pc = "idle"
    /\ calls' = [calls EXCEPT ![c] = CallStart(@)]
    /\ UNCHANGED notPair

\* the timer of call c fires: its controller aborts the fetches that listen
\* to its signal
PairTimeoutFires(c) ==
    /\ calls[c].pc = "fetching"
    /\ calls' = [d \in Calls |->
                    IF calls[d].pc = "fetching" /\ ControllerOf(d) = ControllerOf(c)
                    THEN CallFail(calls[d], AbortError,
                                  IF d = c THEN <<Input("Timeout", Undefined)>> ELSE <<>>)
                    ELSE calls[d]]
    /\ UNCHANGED notPair

PairFetchResolves(c) ==
    /\ calls[c].pc = "fetching"
    /\ \E response \in PairResponses :
        calls' = [calls EXCEPT ![c] = CallResponse(@, response)]
    /\ UNCHANGED notPair

PairJsonResolves(c) ==
    /\ calls[c].pc = "parsing"
    /\ \E body \in PairBodies :
        calls' = [calls EXCEPT ![c] = CallBody(@, body)]
    /\ UNCHANGED notPair

PairJsonRejects(c) ==
    /\ calls[c].pc = "parsing"
    /\ \E e \in SyntaxErrors :
        calls' = [calls EXCEPT ![c] = CallFail(@, e, <<Input("Format", Undefined)>>)]
    /\ UNCHANGED notPair

PairBackoffElapses(c) ==
    /\ calls[c].pc = "backoff"
    /\ calls' = [calls EXCEPT ![c] = CallRetry(@)]
    /\ UNCHANGED notPair

PairNext ==
    \/ \E c \in Calls : PairGetClasses(c)
    \/ \E c \in Calls : PairTimeoutFires(c)
    \/ \E c \in Calls : PairFetchResolves(c)
    \/ \E c \in Calls : PairJsonResolves(c)
    \/ \E c \in Calls : PairJsonRejects(c)
    \/ \E c \in Calls : PairBackoffElapses(c)

----------------------------------------------------------------------------
(* The programs page (main.js, modal.js).  `page` holds the module state of *)
(* both files and the parts of the document their handlers read and write.  *)
(* A click is one step: the listeners of the target run, then the event     *)
(* bubbles to the listener of the document.                                 *)

Program(name, type) == [name |-> name, type |-> type]

YogaProgram == Program("Yoga", "yoga")

HiitProgram == Program("HIIT", "hiit")

PilatesProgram == Program("Pilates", "pilates")

\* what getClasses resolves to: validated records, or [] after a failure
Loaded ==
    {<<>>, <<HiitProgram>>, <<YogaProgram, HiitProgram>>,
     <<HiitProgram, PilatesProgram, YogaProgram>>}

\* the data-filter values of the filter buttons
FilterButtons == {"all", "yoga", "hiit"}

\* elements that take part in focus and clicks
El(el, i) == [el |-> el, i |-> i]

NoElement == El("null", 0)

Body == El("body", 0)

MenuToggle == El("menuToggle", 0)

NavLink == El("navLink", 0)

FilterButton == El("filter", 0)

DetailsButton(i) == El("details", i)

Dialog == El("modal", 0)

ModalContent == El("modalContent", 0)

CloseButton == El("closeModal", 0)

CtaButton == El("modalCta", 0)

\* the element or one of its ancestors is `ancestor`
contains(ancestor, target) ==
    \/ target = ancestor
    \/ ancestor = Dialog /\ target \in {ModalContent, CloseButton, CtaButton}
    \/ ancestor = ModalContent /\ target \in {CloseButton, CtaButton}

\* the browser focuses what is clicked
focus(p, target) == [p EXCEPT !.activeElement = target]

showLoading(p) ==
    [p EXCEPT !.loadingHidden = FALSE, !.errorHidden = TRUE, !.emptyHidden = TRUE]

hideLoading(p) == [p EXCEPT !.loadingHidden = TRUE]

showError(p) == [hideLoading(p) EXCEPT !.errorHidden = FALSE, !.emptyHidden = TRUE]

showEmpty(p) == [hideLoading(p) EXCEPT !.emptyHidden = FALSE, !.errorHidden = TRUE]

\* container.innerHTML = '' removes the cards, and with them a focused
\* details button; `rendered` records that a render took place
renderPrograms(p, programs) ==
    LET cleared == [p EXCEPT !.cards = <<>>,
                             !.rendered = TRUE,
                             !.activeElement = IF @.el = "details" THEN Body ELSE @]
    IN IF Len(programs) = 0
       THEN showEmpty(cleared)
       ELSE [hideLoading(cleared) EXCEPT !.cards = programs]

filter(programs, type) == SelectSeq(programs, LAMBDA program : program.type = type)

filterPrograms(p, type) ==
    LET q == [p EXCEPT !.currentFilter = type]
        filtered == IF type = "all" THEN q.allClasses ELSE filter(q.allClasses, type)
    IN renderPrograms(q, filtered)

\* the click listener of a filter button
filterClick(p, filterType) == filterPrograms([p EXCEPT !.activeFilter = filterType], filterType)

\* the click listener of the menu toggle
menuToggleClick(p) ==
    LET isExpanded == p.expanded IN
    [p EXCEPT !.expanded = ~isExpanded,
              !.navActive = ~@,
              !.overflow = IF isExpanded THEN "" ELSE "hidden"]

\* the click listener of a link of the menu
navLinkClick(p) == [p EXCEPT !.expanded = FALSE, !.navActive = FALSE, !.overflow = ""]

\* the click listener of the document: a click outside the menu closes it
clickOutside(p, target) ==
    IF p.nav /\ ~contains(MenuToggle, target) /\ ~contains(NavLink, target)
    THEN [p EXCEPT !.expanded = FALSE, !.navActive = FALSE, !.overflow = ""]
    ELSE p

setInitialFocus(p, focusable) ==
    IF focusable THEN focus(p, CloseButton) ELSE p

restoreFocus(p) ==
    IF p.focusedElementBeforeModal # NoElement
    THEN focus(p, p.focusedElementBeforeModal)
    ELSE p

\* showModal() moves focus into the dialog; the timer is only scheduled here
openModal(p, title) ==
    IF ~p.modal
    THEN p
    ELSE [p EXCEPT !.focusedElementBeforeModal = p.activeElement,
                   !.title = title,
                   !.open = TRUE,
                   !.activeElement = CloseButton,
                   !.focusTimers = @ + 1,
                   !.keydown = TRUE,
                   !.overflow = "hidden"]

\* close() takes focus out of the dialog it closes
closeModal(p) ==
    IF ~p.modal
    THEN p
    ELSE restoreFocus(
            [p EXCEPT !.open = FALSE,
                      !.activeElement = IF p.open /\ contains(Dialog, @) THEN Body ELSE @,
                      !.keydown = FALSE,
                      !.overflow = ""])

\* the elements of the dialog that Tab reaches, in document order
getFocusableElements == <<CloseButton, CtaButton>>

trapFocus(p, key, shiftKey) ==
    LET focusableElements == getFocusableElements
        firstElement == focusableElements[1]
        lastElement == focusableElements[Len(focusableElements)]
    IN IF key # "Tab" THEN p
       ELSE IF shiftKey /\ p.activeElement = firstElement THEN focus(p, lastElement)
       ELSE IF ~shiftKey /\ p.activeElement = lastElement THEN focus(p, firstElement)
       ELSE p

\* what Tab does where trapFocus leaves it to the browser
tabDefault(p, shiftKey) ==
    IF p.activeElement = CloseButton /\ ~shiftKey THEN focus(p, CtaButton)
    ELSE IF p.activeElement = CtaButton /\ shiftKey THEN focus(p, CloseButton)
    ELSE focus(p, CloseButton)

handleKeyDown(p, key, shiftKey) ==
    IF key = "Escape" THEN closeModal(p) ELSE trapFocus(p, key, shiftKey)

handleBackdropClick(p, target) ==
    IF target = Dialog /\ ~contains(ModalContent, target) THEN closeModal(p) ELSE p

\* the part of handleProgramClick that acts on the page
handleProgramClick(p, program) == openModal(p, program.name)

\* the value storage.js is handed for a type
TypeValue(type) == Value(Str(<<type>>))

\* the data-filter a saved preference selects ('' selects no button)
SelectorOf(savedPreference) ==
    IF savedPreference.t = "string" /\ Len(savedPreference.v) = 1
    THEN savedPreference.v[1]
    ELSE ""

\* the page after init(): the listeners are wired and loadPrograms waits for
\* getClasses; `nav` and `modal` say whether the document has the menu
\* (#menu-toggle and #nav-links) and the dialog (#modal)
Opened(nav, modal) ==
    showLoading(
        [nav |-> nav, modal |-> modal, load |-> "pending",
         allClasses |-> <<>>, currentFilter |-> "all", activeFilter |-> "all",
         loadingHidden |-> FALSE, errorHidden |-> TRUE, emptyHidden |-> TRUE,
         cards |-> <<>>, rendered |-> FALSE,
         expanded |-> FALSE, navActive |-> FALSE, overflow |-> "",
         open |-> FALSE, title |-> "", focusedElementBeforeModal |-> NoElement,
         activeElement |-> Body, focusTimers |-> 0, keydown |-> FALSE])

PageInit == page = Opened(TRUE, TRUE)

\* what earlier visits left in localStorage
StoresLeft ==
    {EmptyStore,
     savePreference(EmptyStore, TRUE, TypeValue("yoga")).store,
     savePreference(EmptyStore, TRUE, TypeValue("pilates")).store}

PageStart ==
    /\ \E nav \in BOOLEAN, modal \in BOOLEAN : page = Opened(nav, modal)
    /\ store \in StoresLeft
    /\ available \in BOOLEAN
    /\ last = NoOp

\* getClasses resolves and loadPrograms goes on after its await
LoadCompletes ==
    /\ page.load = "pending"
    /\ \E classes \in Loaded :
        LET assigned == [page EXCEPT !.allClasses = classes, !.load = "done"]
            shown == renderPrograms(assigned, classes)
            savedPreference == getPreference(store, available)
        IN page' =
            IF Len(classes) = 0 THEN showError(assigned)
            ELSE IF ~Falsy(savedPreference) /\ SelectorOf(savedPreference) \in FilterButtons
                 THEN clickOutside(filterClick(shown, SelectorOf(savedPreference)), FilterButton)
                 ELSE shown
    /\ UNCHANGED <<store, notPage>>

ClickFilter ==
    /\ ~page.open
    /\ \E filterType \in FilterButtons :
        page' = clickOutside(filterClick(focus(page, FilterButton), filterType), FilterButton)
    /\ UNCHANGED <<store, notPage>>

ClickDetails ==
    /\ ~page.open
    /\ page.focusTimers < MaxTimers
    /\ \E i \in 1..Len(page.cards) :
        /\ page' = clickOutside(
                        handleProgramClick(focus(page, DetailsButton(i)), page.cards[i]),
                        DetailsButton(i))
        /\ store' = savePreference(store, available, TypeValue(page.cards[i].type)).store
    /\ UNCHANGED notPage

ClickMenuToggle ==
    /\ ~page.open
    /\ page.nav
    /\ page' = clickOutside(menuToggleClick(focus(page, MenuToggle)), MenuToggle)
    /\ UNCHANGED <<store, notPage>>

ClickNavLink ==
    /\ ~page.open
    /\ page.nav
    /\ page' = clickOutside(navLinkClick(focus(page, NavLink)), NavLink)
    /\ UNCHANGED <<store, notPage>>

ClickElsewhere ==
    /\ ~page.open
    /\ page' = clickOutside(focus(page, Body), Body)
    /\ UNCHANGED <<store, notPage>>

ClickCloseButton ==
    /\ page.open
    /\ page' = clickOutside(
                    handleBackdropClick(closeModal(focus(page, CloseButton)), CloseButton),
                    CloseButton)
    /\ UNCHANGED <<store, notPage>>

ClickCta ==
    /\ page.open
    /\ page' = clickOutside(
                    handleBackdropClick(closeModal(focus(page, CtaButton)), CtaButton),
                    CtaButton)
    /\ UNCHANGED <<store, notPage>>

\* a click beside the dialog's box goes to the dialog itself
ClickBackdrop ==
    /\ page.open
    /\ page' = clickOutside(handleBackdropClick(page, Dialog), Dialog)
    /\ UNCHANGED <<store, notPage>>

ClickModalContent ==
    /\ page.open
    /\ page' = clickOutside(handleBackdropClick(page, ModalContent), ModalContent)
    /\ UNCHANGED <<store, notPage>>

\* a key goes down while the listener of openModal is on the document; the
\* browser may follow Escape with the dialog's cancel event
KeyDown ==
    /\ page.keydown
    /\ \E key \in {"Escape", "Tab"}, shiftKey \in BOOLEAN, cancel \in BOOLEAN :
        LET handled == handleKeyDown(page, key, shiftKey) IN
        page' = IF key = "Tab"
                THEN IF handled = page THEN tabDefault(page, shiftKey) ELSE handled
                ELSE IF cancel THEN closeModal(handled) ELSE handled
    /\ UNCHANGED <<store, notPage>>

\* the dialog's cancel event (a close request that came without the keydown)
Cancel ==
    /\ page.open
    /\ page' = closeModal(page)
    /\ UNCHANGED <<store, notPage>>

\* the timer openModal scheduled fires; focus() on the close button of a
\* closed dialog moves focus where the button is still focusable and is
\* ignored where the closed dialog is not rendered
InitialFocusTimerFires ==
    /\ page.focusTimers > 0
    /\ \E focusable \in (IF page.open THEN {TRUE} ELSE BOOLEAN) :
        page' = setInitialFocus([page EXCEPT !.focusTimers = @ - 1], focusable)
    /\ UNCHANGED <<store, notPage>>

PageNext ==
    \/ LoadCompletes
    \/ ClickFilter
    \/ ClickDetails
    \/ ClickMenuToggle
    \/ ClickNavLink
    \/ ClickElsewhere
    \/ ClickCloseButton
    \/ ClickCta
    \/ ClickBackdrop
    \/ ClickModalContent
    \/ KeyDown
    \/ Cancel
    \/ InitialFocusTimerFires

----------------------------------------------------------------------------
(* The single call *)

LoaderInit ==
    /\ pc = "idle"
    /\ retries = maxRetries
    /\ delay = retryDelay
    /\ attempts = 0
    /\ waited = <<>>
    /\ history = <<>>
    /\ timers = <<>>
    /\ data = Undefined
    /\ warnings = 0
    /\ settled = "pending"
    /\ result = <<>>
    /\ diagnostic = "none"

Init == LoaderInit /\ PairInit /\ StorageInit /\ PageInit

\* fn() starts: fetchWithTimeout arms the timer and issues the fetch
StartAttempt ==
    /\ pc' = "fetching"
    /\ attempts' = attempts + 1
    /\ timers' = Append(timers, "armed")
    /\ data' = Undefined

\* getClasses() is called: retry(fn) with the default retries and delay
GetClasses ==
    /\ pc = "idle"
    /\ StartAttempt
    /\ retries' = maxRetries
    /\ delay' = retryDelay
    /\ UNCHANGED <<waited, history, warnings, settled, result, diagnostic>>
    /\ UNCHANGED notLoader

\* fn() threw `error` (of kind `kind`): retry's catch, and when it rethrows
\* the catch block of getClasses
Fail(error, kind) ==
    /\ history' = Append(history, kind)
    /\ IF ShouldRethrow(error, retries)
       THEN LET c == Catch(error) IN
            /\ pc' = "done"
            /\ settled' = c.settled
            /\ result' = c.value
            /\ diagnostic' = c.diagnostic
       ELSE /\ pc' = "backoff"
            /\ UNCHANGED <<settled, result, diagnostic>>
    /\ UNCHANGED <<retries, delay, attempts, waited>>

\* a pending timer fires: controller.abort() of its attempt.  The attempt's
\* fetch (or body read) rejects with an AbortError if it is still pending;
\* the abort of a request that has settled changes nothing.
TimeoutFires ==
    /\ \E i \in 1..Len(timers) :
        /\ timers[i] = "armed"
        /\ timers' = [timers EXCEPT ![i] = "fired"]
        /\ IF i = attempts /\ pc \in {"fetching", "parsing"}
           THEN Fail(AbortError, "Timeout")
           ELSE UNCHANGED <<pc, retries, delay, attempts, waited, history,
                            settled, result, diagnostic>>
    /\ UNCHANGED <<data, warnings>>
    /\ UNCHANGED notLoader

\* fetch rejects on a network failure; the timer is cleared
FetchRejects ==
    /\ pc = "fetching"
    /\ timers' = [timers EXCEPT ![attempts] = clearTimeout(timers[attempts])]
    /\ Fail(NetworkError, "Network")
    /\ UNCHANGED <<data, warnings>>
    /\ UNCHANGED notLoader

\* a response arrives; the timer is cleared, status and content type are checked
FetchResolves ==
    /\ pc = "fetching"
    /\ timers' = [timers EXCEPT ![attempts] = clearTimeout(timers[attempts])]
    /\ \E response \in Responses :
        IF ~ok(response)
        THEN Fail(HttpError(response.status), "Http")
        ELSE IF Falsy(response.contentType)
                \/ ~includes(response.contentType.v, <<"application/json">>)
        THEN Fail(ContentTypeError, "Format")
        ELSE /\ pc' = "parsing"
             /\ UNCHANGED <<retries, delay, attempts, waited, history,
                            settled, result, diagnostic>>
    /\ UNCHANGED <<data, warnings>>
    /\ UNCHANGED notLoader

\* response.json() resolves with the parsed body, which is validated
JsonResolves ==
    /\ pc = "parsing"
    /\ \E body \in Bodies :
        LET v == validateClasses(body) IN
        /\ data' = body
        /\ warnings' = v.warned
        /\ IF v.threw
           THEN Fail(v.error, "Shape")
           ELSE /\ pc' = "done"
                /\ settled' = "fulfilled"
                /\ result' = v.value
                /\ UNCHANGED <<retries, delay, attempts, waited, history, diagnostic>>
    /\ UNCHANGED timers
    /\ UNCHANGED notLoader

\* response.json() rejects: the body is not JSON, or the connection broke
JsonRejects ==
    /\ pc = "parsing"
    /\ \/ \E e \in SyntaxErrors : Fail(e, "Format")
       \/ Fail(NetworkError, "Network")
    /\ UNCHANGED <<timers, data, warnings>>
    /\ UNCHANGED notLoader

\* the backoff timer fires: retry(fn, retries - 1, delay * 2)
BackoffElapses ==
    /\ pc = "backoff"
    /\ waited' = Append(waited, delay)
    /\ retries' = NextRetries(retries)
    /\ delay' = NextDelay(delay)
    /\ StartAttempt
    /\ UNCHANGED <<history, warnings, settled, result, diagnostic>>
    /\ UNCHANGED notLoader

Next ==
    \/ GetClasses
    \/ TimeoutFires
    \/ FetchRejects
    \/ FetchResolves
    \/ JsonResolves
    \/ JsonRejects
    \/ BackoffElapses

Spec == Init /\ [][Next]_vars

PairSpec == Init /\ [][PairNext]_vars

StorageSpec == Init /\ [][StorageNext]_vars

\* the page, opened on a document and on what localStorage holds
PageOpens == LoaderInit /\ PairInit /\ PageStart

PageSpec == PageOpens /\ [][PageNext]_vars

\* timers fire, and a body read that has begun settles
LiveSpec ==
    /\ Spec
    /\ WF_vars(TimeoutFires)
    /\ WF_vars(BackoffElapses)
    /\ WF_vars(JsonResolves \/ JsonRejects)

----------------------------------------------------------------------------
(* Vocabulary of the properties *)

\* the Record shape: an object with the five fields, each a string holding
\* at least one character that is not whitespace
RecordShape(e) ==
    /\ e.t = "object"
    /\ \A k \in {"name", "type", "duration", "level", "trainer"} :
        /\ e.f[k].t = "string"
        /\ \E j \in 1..Len(e.f[k].v) : e.f[k].v[j] \notin Whitespace

\* the positions of `items` that hold a Record
RecordPositions(items) == {i \in 1..Len(items) : RecordShape(items[i])}

\* `res` is the elements of `items` at the positions `pos`, in their order
IsSelection(res, items, pos) ==
    /\ Len(res) = Cardinality(pos)
    /\ \E f \in [1..Len(res) -> pos] :
        /\ \A i, j \in 1..Len(res) : i < j => f[i] < f[j]
        /\ \A i \in 1..Len(res) : res[i] = items[f[i]]

\* the load has ended and its last attempt failed
Failed == pc = "done" /\ Len(history) = attempts

\* every attempt made so far ended in a failure of kind k
AllFailedWith(k) ==
    /\ attempts >= 1
    /\ Len(history) = attempts
    /\ \A i \in 1..Len(history) : history[i] = k

\* the first attempt got a success response whose body parsed to an array
FirstBodyIsArray == attempts = 1 /\ isArray(data)

\* the taxonomy kind a logged category stands for
KindOfCategory(c) ==
    CASE c = "Request timeout"   -> "Timeout"
      [] c = "Server error"      -> "Http"
      [] c = "Data format error" -> "Format"
      [] c = "Network error"     -> "Network"
      [] OTHER                   -> "none"

----------------------------------------------------------------------------
(* Properties *)

\* C1: getClasses never raises to its caller: the returned promise is never
\* rejected, it is fulfilled once the load has ended, and when the last
\* attempt failed (whatever the failure) it is fulfilled with an empty array.
C1_NeverRaises ==
    /\ settled # "rejected"
    /\ pc = "done" => settled = "fulfilled"
    /\ Failed => result = <<>>

C1_Witness ==
    /\ Failed
    /\ settled = "fulfilled"
    /\ result = <<>>
    /\ history[Len(history)] \in {"Network", "Http", "Format", "Shape"}

\* C2: a ShapeError is not retried: when the first response is a success
\* whose body is not an array, or an array without any valid record, the load
\* has ended after that one attempt, without a backoff delay, with an empty
\* array.
C2_ShapeErrorNotRetried ==
    (history # <<>> /\ history[1] = "Shape") =>
        /\ pc = "done"
        /\ attempts = 1
        /\ waited = <<>>
        /\ result = <<>>

\* C3: when no response arrives within the timeout on any attempt, each
\* attempt is aborted by its timer, the load waits for a retry while fewer
\* than maxRetries + 1 attempts were made, and after attempt maxRetries + 1
\* it ends with an empty array; there are never more attempts than that.
C3_TimeoutsRetried ==
    /\ attempts <= maxRetries + 1
    /\ AllFailedWith("Timeout") =>
        /\ timer = "fired"
        /\ IF attempts < maxRetries + 1
           THEN pc = "backoff"
           ELSE pc = "done" /\ settled = "fulfilled" /\ result = <<>>

C3_Witness ==
    /\ AllFailedWith("Timeout")
    /\ attempts = 4
    /\ pc = "done"
    /\ result = <<>>

\* C4: when every attempt receives a non-2xx status, the load ends only
\* after exactly maxRetries + 1 attempts, and then with an empty array.
C4_HttpErrorsRetried ==
    AllFailedWith("Http") =>
        /\ pc = "done" <=> attempts = maxRetries + 1
        /\ pc # "done" => pc = "backoff" /\ attempts < maxRetries + 1
        /\ pc = "done" => settled = "fulfilled" /\ result = <<>>

C4_Witness ==
    /\ AllFailedWith("Http")
    /\ pc = "done"
    /\ attempts = maxRetries + 1
    /\ Len(waited) = maxRetries

\* C5: a format failure is retryable: a format failure of attempt i is
\* followed by the wait for attempt i + 1 as long as i <= maxRetries, and a
\* load whose last failure is a format failure has ended only after
\* maxRetries + 1 attempts, with an empty array.
C5_FormatErrorsRetried ==
    /\ \A i \in 1..Len(history) :
        (history[i] = "Format" /\ i <= maxRetries) =>
            \/ attempts > i
            \/ attempts = i /\ pc = "backoff"
    /\ (Failed /\ history[Len(history)] = "Format") =>
        /\ attempts = maxRetries + 1
        /\ result = <<>>

C5_Witness ==
    /\ history = <<"Format", "Format">>
    /\ attempts = 3
    /\ pc = "parsing"

\* C6: when the body of the first response is an array of n elements of
\* which k are Records, 0 < k < n, the load has ended with exactly those k
\* elements in their original order, after one attempt and no delay.
C6_PartialBodyFiltered ==
    LET pos == RecordPositions(data.items) IN
    (FirstBodyIsArray /\ 0 < Cardinality(pos) /\ Cardinality(pos) < Len(data.items)) =>
        /\ pc = "done"
        /\ settled = "fulfilled"
        /\ IsSelection(result, data.items, pos)
        /\ history = <<>>
        /\ waited = <<>>

C6_Witness ==
    /\ pc = "done"
    /\ attempts = 1
    /\ data = ArrayOf(<<Hiit, NoTrainer, Yoga>>)
    /\ result = <<Hiit, Yoga>>

\* C7: when the body of the first response is an array whose every element
\* is a Record, the load has ended with that array unmodified, after one
\* attempt and no delay.
C7_ValidBodyUnmodified ==
    (/\ FirstBodyIsArray
     /\ data.items # <<>>
     /\ \A i \in 1..Len(data.items) : RecordShape(data.items[i])) =>
        /\ pc = "done"
        /\ settled = "fulfilled"
        /\ result = data.items
        /\ history = <<>>
        /\ waited = <<>>

C7_Witness ==
    /\ pc = "done"
    /\ attempts = 1
    /\ waited = <<>>
    /\ data = ArrayOf(<<Yoga, Hiit, Yoga>>)
    /\ result = <<Yoga, Hiit, Yoga>>

\* C8: whatever attempts preceded it, every element of the array the load
\* returns satisfies the Record shape.
C8_OnlyRecordsReturned ==
    \A i \in 1..Len(result) : RecordShape(result[i])

C8_Witness ==
    /\ pc = "done"
    /\ attempts > 1
    /\ Len(result) = 2
    /\ Len(data.items) = 3
    /\ \E i \in 1..Len(data.items) : data.items[i] = BlankLevel

\* C9: the wait before the i-th retry is the initial delay times 2^(i-1),
\* that is 1000, 2000, 4000 ms, one wait per retry and none before the first
\* attempt.
C9_BackoffDoubles ==
    /\ Len(waited) <= maxRetries
    /\ attempts >= 1 => Len(waited) = attempts - 1
    /\ \A i \in 1..Len(waited) : waited[i] = retryDelay * 2^(i - 1)
    /\ waited = SubSeq(<<1000, 2000, 4000>>, 1, Len(waited))

C9_Witness ==
    /\ waited = <<1000, 2000, 4000>>
    /\ attempts = 4

\* C10: when the load has ended with a failure, the category of the logged
\* diagnostic is the one of the kind of the final failure.
C10_DiagnosticByKind ==
    Failed => KindOfCategory(diagnostic) = history[Len(history)]

\* an input that makes its attempt succeed: a body holding a Record
IsSuccess(in) ==
    /\ in.kind = "Body"
    /\ isArray(in.body)
    /\ RecordPositions(in.body.items) # {}

\* the state of a call is the one its own inputs determine
OwnInputsDecide(s) ==
    LET n == Len(s.inputs) IN
    /\ s.attempts = n + (IF s.pc \in {"fetching", "parsing"} THEN 1 ELSE 0)
    /\ \A i \in 1..(n - 1) : ~IsSuccess(s.inputs[i])
    /\ s.pc = "done" <=> (n >= 1 /\ (IsSuccess(s.inputs[n]) \/ n = maxRetries + 1))
    /\ s.pc = "done" =>
        /\ s.settled = "fulfilled"
        /\ IF IsSuccess(s.inputs[n])
           THEN IsSelection(s.result, s.inputs[n].body.items,
                            RecordPositions(s.inputs[n].body.items))
           ELSE s.result = <<>>
    /\ s.pc # "done" => s.settled = "pending"
    /\ Len(s.waited) = (IF s.attempts = 0 THEN 0 ELSE s.attempts - 1)
    /\ \A i \in 1..Len(s.waited) : s.waited[i] = retryDelay * 2^(i - 1)

\* C11: concurrent calls are independent: in every interleaving of two
\* getClasses calls, the attempts, waits and result of each call are those
\* its own inputs (the answers to its own requests, its own timeouts)
\* determine.
C11_CallsIndependent ==
    \A c \in Calls : OwnInputsDecide(calls[c])

C11_Witness ==
    /\ calls["a"].pc = "done"
    /\ calls["a"].attempts = 1
    /\ calls["a"].result = <<Hiit>>
    /\ calls["b"].pc = "backoff"
    /\ calls["b"].attempts = 2
    /\ \A i \in 1..2 : calls["b"].inputs[i].kind = "Timeout"

\* what the three getters return
Getters(st, av) ==
    [preferredTraining |-> getPreference(st, av),
     userPreferences |-> getUserPreferences(st, av),
     recentClasses |-> getRecentClasses(st, av)]

\* the item under `key` is there and JSON.parse rejects it
Unreadable(key) == store[key].present /\ ~parse(store[key].text).ok

\* {theme: 'light', notifications: true, language: 'es'}
LightTrueEs ==
    [t |-> "object", v |-> <<>>, items |-> <<>>,
     props |-> [k \in {"theme", "notifications", "language"} |->
                    CASE k = "theme"         -> [t |-> "string", v |-> <<"light">>]
                      [] k = "notifications" -> [t |-> "boolean", v |-> <<"true">>]
                      [] k = "language"      -> [t |-> "string", v |-> <<"es">>]]]

\* the operations that save or remove and return their success
SaveRemoveOps ==
    {"savePreference", "removePreference", "saveUserPreferences",
     "updateUserPreference", "clearRecentClasses", "resetAllData"}

\* C12: the storage helper falls back to defaults: with localStorage
\* unavailable the getters return null, {theme:'light', notifications:true,
\* language:'es'} and [], and every save or remove operation returns false and
\* writes nothing; with an unreadable item under a key, the getter of that key
\* returns its default; no operation throws.
C12_FallsBackToDefaults ==
    /\ ~available =>
        /\ getPreference(store, available) = NullValue
        /\ getUserPreferences(store, available) = LightTrueEs
        /\ getRecentClasses(store, available) = ArrayValue(<<>>)
    /\ Unreadable(preferredTrainingKey) => getPreference(store, available) = NullValue
    /\ Unreadable(userPreferencesKey) => getUserPreferences(store, available) = LightTrueEs
    /\ Unreadable(recentClassesKey) => getRecentClasses(store, available) = ArrayValue(<<>>)
    /\ (~available /\ last.op \in SaveRemoveOps) =>
        /\ last.ret = FALSE
        /\ store = last.before
    /\ ~last.threw
    /\ getRecentClasses(store, available) # TypeErrorValue

C12_Witness ==
    /\ ~available
    /\ last.op = "savePreference"
    /\ last.type = Yoga_
    /\ last.ret = FALSE
    /\ store[preferredTrainingKey] = Item(stringify(Hiit_))
    /\ Unreadable(userPreferencesKey)

\* C13: with storage available, importData(exportData()) returns true and
\* leaves what getPreference, getUserPreferences and getRecentClasses return
\* as it was.
C13_ExportImportRoundTrip ==
    (last.op = "importExported" /\ available) =>
        /\ last.ret = TRUE
        /\ Getters(store, available) = Getters(last.before, available)

C13_Witness ==
    /\ last.op = "importExported"
    /\ available
    /\ last.ret = TRUE
    /\ getPreference(store, available) = Hiit_
    /\ getRecentClasses(store, available) = ArrayValue(<<ScalarOf(Yoga_), ScalarOf(Hiit_)>>)
    /\ store # last.before

\* the field of the import data is there (the test importData makes)
Given(field) == field.t \notin {"undefined", "null"}

\* C14: importData returns its success status: true only when every field
\* given in the data is in storage afterwards, false when the data is no
\* object.
C14_ImportReportsSuccess ==
    last.op = "importData" =>
        /\ last.data.t # "object" => last.ret = FALSE
        /\ last.ret = TRUE =>
            /\ Given(last.data.preferredTraining) =>
                    store[preferredTrainingKey]
                        = [present |-> TRUE, text |-> stringify(last.data.preferredTraining)]
            /\ Given(last.data.userPreferences) =>
                    store[userPreferencesKey]
                        = [present |-> TRUE, text |-> stringify(last.data.userPreferences)]
            /\ Given(last.data.recentClasses) =>
                    store[recentClassesKey]
                        = [present |-> TRUE, text |-> stringify(last.data.recentClasses)]

\* C15: if attempts 1..j-1 each end in a retryable failure and attempt j
\* succeeds, the load returns the validated records of attempt j, has waited
\* exactly the j-1 backoff delays before it, and makes no further attempt.
C15_SuccessAfterRetries ==
    /\ [](( /\ pc = "done"
            /\ Len(history) = attempts - 1
            /\ \A i \in 1..Len(history) : history[i] \in {"Timeout", "Http", "Format"}) =>
                /\ settled = "fulfilled"
                /\ result # <<>>
                /\ IsSelection(result, data.items, RecordPositions(data.items))
                /\ Len(waited) = attempts - 1
                /\ \A i \in 1..Len(waited) : waited[i] = retryDelay * 2^(i - 1))
    /\ [][pc = "done" => attempts' = attempts /\ pc' = "done"]_vars

C15_Witness ==
    /\ pc = "done"
    /\ attempts = 3
    /\ history = <<"Timeout", "Format">>
    /\ data = ArrayOf(<<NoTrainer, Yoga>>)
    /\ result = <<Yoga>>
    /\ waited = <<1000, 2000>>

C17_TimerCancelled ==
    \A i \in 1..Len(timers) :
        /\ timers[i] = "armed" => i = attempts /\ pc = "fetching"
        /\ timers[i] = "fired" => i <= Len(history) /\ history[i] = "Timeout"
        /\ (i <= Len(history) /\ history[i] # "Timeout") => timers[i] = "cleared"

C17_Witness ==
    /\ timers = <<"fired", "cleared", "cleared", "armed">>
    /\ history = <<"Timeout", "Http", "Shape">>
    /\ pc = "fetching"

\* a non-empty string
NonEmptyString(x) == x.t = "string" /\ x.v # <<>>

\* C18: savePreference(type): with storage available and type a non-empty
\* string it returns true, getPreference() then returns type and type is the
\* first of getRecentClasses(); with an empty or non-string type it returns
\* false and leaves the three entries as they were.
C18_SavePreference ==
    last.op = "savePreference" =>
        IF NonEmptyString(last.type)
        THEN available =>
                /\ last.ret = TRUE
                /\ getPreference(store, available) = last.type
                /\ getRecentClasses(store, available).items # <<>>
                /\ getRecentClasses(store, available).items[1]
                    = [t |-> last.type.t, v |-> last.type.v]
        ELSE /\ last.ret = FALSE
             /\ store = last.before

C18_Witness ==
    /\ last.op = "savePreference"
    /\ available
    /\ last.type = Hiit_
    /\ last.ret = TRUE
    /\ getRecentClasses(last.before, available)
        = ArrayValue(<<ScalarOf(Yoga_), ScalarOf(Hiit_)>>)
    /\ getRecentClasses(store, available)
        = ArrayValue(<<ScalarOf(Hiit_), ScalarOf(Yoga_)>>)

\* C19: after any sequence of the public storage operations the stored
\* recent-classes list holds no duplicate and at most MAX_RECENT_ITEMS
\* entries, and a class just added is its first entry.
C19_RecentListInvariant ==
    LET key == "fitness_recent_classes" IN
    (store[key].present /\ parse(store[key].text).ok
        /\ parse(store[key].text).value.t = "array") =>
        LET recent == parse(store[key].text).value.items IN
        /\ \A i, j \in 1..Len(recent) : recent[i] = recent[j] => i = j
        /\ Len(recent) <= 10
        /\ (/\ last.op \in {"addRecentClass", "savePreference"}
            /\ NonEmptyString(last.type)
            /\ available) =>
                recent[1] = [t |-> last.type.t, v |-> last.type.v]

\* the data has the form of a result of exportData()
IsExport(d) ==
    /\ d.t = "object"
    /\ d.preferredTraining.t = "null" \/ NonEmptyString(d.preferredTraining)
    /\ d.userPreferences.t = "object"
    /\ d.recentClasses.t = "array"
    /\ Len(d.recentClasses.items) <= 10

\* C20: importData restores an export into any store: with storage
\* available, after importData(d) of an export d the getters return the
\* exported values.
C20_ImportRestoresExport ==
    (last.op = "importData" /\ available /\ IsExport(last.data)) =>
        /\ getPreference(store, available) = last.data.preferredTraining
        /\ getUserPreferences(store, available) = last.data.userPreferences
        /\ getRecentClasses(store, available) = last.data.recentClasses

\* the last render left no card in the container
LastRenderEmpty == page.rendered /\ page.cards = <<>>

\* C21: on the programs page, once the load has completed and after any
\* filter clicks, the loading indicator is hidden, at most one of the error
\* and empty indicators is visible, and the empty indicator is visible
\* exactly when the last render displayed zero program cards.
C21_IndicatorsReflectState ==
    page.load = "done" =>
        /\ page.loadingHidden
        /\ page.errorHidden \/ page.emptyHidden
        /\ ~page.emptyHidden <=> LastRenderEmpty

\* C22: however the filter clicks interleave with the completion of
\* loadPrograms, the cards displayed are the elements of allClasses whose type
\* is currentFilter (all of them under 'all'), in the order of allClasses.
C22_CardsMatchFilter ==
    page.cards # <<>> =>
        page.cards = SelectSeq(page.allClasses,
                        LAMBDA c : page.currentFilter = "all" \/ c.type = page.currentFilter)

\* C23: while the modal is open, from the end of the click that opened it
\* until closeModal runs, document.body.style.overflow is 'hidden'.
C23_ScrollPreventedWhileOpen ==
    page.open => page.overflow = "hidden"

\* C24: when the modal closes, by whatever means, focus is on the element
\* that was focused right before openModal, and the initial-focus timer of a
\* modal that is closed when it fires does not move focus.
C24_FocusRestoredAndKept ==
    [][/\ (page.open /\ ~page'.open) =>
            page'.activeElement = page.focusedElementBeforeModal
       /\ (~page.open /\ page'.focusTimers < page.focusTimers) =>
            page'.activeElement = page.activeElement]_vars

====
